---- MODULE Spec2Model ----
(***************************************************************************)
(* Double-buffered message passing between the compiler thread and the     *)
(* depgraph thread (src/librustc/dep_graph/thread.rs).                     *)
(*                                                                         *)
(* The producer (DepGraphThreadData) and the worker (fn main) are modelled *)
(* at the granularity of their channel operations: every mpsc send/recv is *)
(* one step, the thread-local code between two channel operations runs     *)
(* atomically with the channel operation that follows or precedes it.      *)
(***************************************************************************)
EXTENDS Integers, Sequences, FiniteSets, TLC

\* ------------------------------------------------------------------ bounds
\* INITIAL_CAPACITY is 2048 in the source; the protocol only compares the
\* buffer length against it, so it is scaled down to keep the model finite.
INITIAL_CAPACITY == 2
\* number of enqueue calls the client makes in one behaviour
MaxEnqueues == 4
\* number of query calls the client makes in one behaviour
MaxQueries == 2
\* ---------------------------------------------------------------- messages
\* DepNode identifiers used by the client; the file never inspects a node
Nodes == {1}

Read(n)     == [kind |-> "Read", node |-> n]
Write(n)    == [kind |-> "Write", node |-> n]
PushTask(n) == [kind |-> "PushTask", node |-> n]
PopTask(n)  == [kind |-> "PopTask", node |-> n]
PushIgnore  == [kind |-> "PushIgnore", node |-> 0]
PopIgnore   == [kind |-> "PopIgnore", node |-> 0]
QueryMsg    == [kind |-> "Query", node |-> 0]

DepMessage ==
    {Read(n) : n \in Nodes} \cup {Write(n) : n \in Nodes}
    \cup {PushTask(n) : n \in Nodes} \cup {PopTask(n) : n \in Nodes}
    \cup {PushIgnore, PopIgnore, QueryMsg}

\* Messages the client passes to enqueue.  DepMessage::Query is produced by
\* query() only (thread.rs:124); the other six variants behave alike in this
\* file, so two of them stand for all.
ClientMessages == {Read(n) : n \in Nodes} \cup {Write(n) : n \in Nodes}

\* ----------------------------------------------------------------- helpers
IsPrefix(s, t) == Len(s) <= Len(t) /\ SubSeq(t, 1, Len(s)) = s

SeqRange(s) == {s[i] : i \in 1..Len(s)}

IsMutation(m) == m.kind # "Query"

\* the graph mutations among a sequence of messages
Mutations(s) == SelectSeq(s, IsMutation)

\* A buffer is a Vec<DepMessage>; id names the allocation.
NoBuf == [id |-> 0, msgs |-> <<>>]

\* Vec::with_capacity(INITIAL_CAPACITY): the (n+1)-th allocation
WithCapacity(n) == [id |-> n + 1, msgs |-> <<>>]

VARIABLES
    enabled,        \* DepGraphThreadData.enabled
    shadowActive,   \* shadow_graph.enabled()
    shadow,         \* messages ShadowGraph has been given
    messages,       \* current buffer, where the producer accumulates
    old_messages,   \* swap()'s local `old_messages` between swap and send
    ch1,            \* tx1/rx1: producer -> worker buffers
    ch2,            \* tx2/rx2: worker -> producer buffers
    chq,            \* txq/rxq: query results
    ppc,            \* producer position
    ret,            \* where the running swap() returns to
    wpc,            \* worker position
    wbuf,           \* worker's `messages` being drained
    edges,          \* DepGraphEdges: mutations applied so far
    result,         \* value returned by the last query()
    \* history
    enqueued,       \* messages accepted by enqueue, in call order
    applied,        \* messages dispatched by the worker, in order
    sent,           \* messages of the buffers sent on tx1, in order
    sentLog,        \* one record per buffer sent on tx1: its messages and
                    \* the caller of the swap() that sent it
    nalloc,         \* buffers allocated so far
    nenq,           \* client enqueue calls so far
    nquery,         \* query calls so far
    runEnq,         \* enqueue calls since the session start or last query
    runSwaps,       \* swap() calls since the session start or last query
    qprefix         \* the messages enqueued before the running/last query()

vars == <<enabled, shadowActive, shadow, messages, old_messages, ch1, ch2,
          chq, ppc, ret, wpc, wbuf, edges, result, enqueued, applied, sent,
          sentLog, nalloc, nenq, nquery, runEnq, runSwaps, qprefix>>

prodVars == <<shadow, messages, old_messages, ppc, ret, result, enqueued,
              nenq, nquery, runEnq, runSwaps, qprefix>>
workVars == <<wpc, wbuf, edges, applied>>
modeVars == <<enabled, shadowActive>>

\* ------------------------------------------------------- code as operators
\* variant: the worker is spawned whatever the mode
SpawnsAlways(en) == TRUE

\* thread::spawn happens iff `enabled`
Spawns(en) == en

\* variant: the shadow flag counts as fully enabled
is_fully_enabled_or_shadow == enabled \/ shadowActive

is_fully_enabled == enabled

\* variant: enqueue is accepted in every mode
is_enqueue_enabled_always == TRUE

is_enqueue_enabled == is_fully_enabled \/ shadowActive

\* shadow_graph.enqueue(&message)
ShadowEnqueue(sh, message) == IF shadowActive THEN Append(sh, message) ELSE sh

\* variant: the message is inserted at the front
PushFront(msgs, message) == <<message>> \o msgs

\* VecCell::push, returns the extended vector (its length is `len`)
Push(msgs, message) == Append(msgs, message)

\* variant: the trigger is one message late
IsFullLate(len) == len > INITIAL_CAPACITY

\* variant: the trigger is one message early
IsFullEarly(len) == len >= INITIAL_CAPACITY - 1

\* `len == INITIAL_CAPACITY`
IsFull(len) == len = INITIAL_CAPACITY

\* variant: the old vector is cloned out instead of moved out
VecSwapClone(cur, new) == [cell |-> new, old |-> [cur EXCEPT !.id = @ + 2]]

\* variant: the new vector is handed back instead of the old one
VecSwapAlias(cur, new) == [cell |-> new, old |-> new]

\* variant: the arguments are exchanged, the full vector stays current
VecSwapKeep(cur, new) == [cell |-> cur, old |-> new]

\* self.messages.swap(new_messages): installs new, hands back the old one
VecSwap(cur, new) == [cell |-> new, old |-> cur]

\* variant: the vector is emptied from the back (a pop() loop)
DrainBack(msgs) ==
    [msg |-> msgs[Len(msgs)], rest |-> SubSeq(msgs, 1, Len(msgs) - 1)]

\* messages.drain(..): the iterator yields from the front
DrainNext(msgs) == [msg |-> Head(msgs), rest |-> Tail(msgs)]

\* variant: the drain loop stops one message early
DrainDoneEarly(msgs) == Len(msgs) <= 1

\* the drain loop ends when the vector has no message left
DrainDone(msgs) == msgs = <<>>

\* variant: the Write arm calls edges.read
DispatchWriteAsRead(e, msg) ==
    IF msg.kind = "Query" THEN e
    ELSE Append(e, IF msg.kind = "Write" THEN Read(msg.node) ELSE msg)

\* the match on msg: every variant but Query mutates the edges
Dispatch(e, msg) == IF msg.kind = "Query" THEN e ELSE Append(e, msg)

\* edges.query(): a snapshot of the graph as built so far
EdgesQuery(e) == e

\* the producer's failed assertions and unwraps:
\*   panic_enqueue   "should never enqueue if not enqueue-enabled"
\*   panic_query     "should never query if not fully enabled"
\*   panic_swap      "should never swap if not fully enabled"
\*   panic_nonempty  assert!(new_messages.is_empty())
\*   panic_recv      recv().unwrap() on a disconnected channel
\*   panic_send      send(..).unwrap() on a disconnected channel
PanicStates == {"panic_enqueue", "panic_query", "panic_swap",
                "panic_nonempty", "panic_recv", "panic_send"}

\* peers as seen through the channels
ProducerDropped == ppc = "dropped"
WorkerGone == wpc \in {"none", "done", "panicked"}

\* -------------------------------------------------------------------- Init
Init ==
    /\ enabled \in BOOLEAN
    /\ shadowActive \in BOOLEAN
    /\ shadow = <<>>
    /\ messages = WithCapacity(0)
    /\ old_messages = NoBuf
    /\ ch1 = <<>> /\ ch2 = <<>> /\ chq = <<>>
    /\ ppc = "idle"
    /\ ret = "idle"
    /\ wpc = IF Spawns(enabled) THEN "start" ELSE "none"
    /\ wbuf = NoBuf
    /\ edges = <<>>
    /\ result = <<>>
    /\ enqueued = <<>> /\ applied = <<>> /\ sent = <<>>
    /\ sentLog = <<>>
    /\ nalloc = 1
    /\ nenq = 0 /\ nquery = 0
    /\ runEnq = 0 /\ runSwaps = 0
    /\ qprefix = <<>>

\* ---------------------------------------------------------------- producer
\* The body of enqueue() once its assertion has passed.  inQuery tells the
\* call made by query() from the client's: query() goes on to its own swap().
EnqueueBody(message, inQuery) ==
    /\ shadow' = ShadowEnqueue(shadow, message)
    /\ enqueued' = Append(enqueued, message)
    /\ IF is_fully_enabled
       THEN LET pushed == Push(messages.msgs, message) IN
            /\ messages' = [messages EXCEPT !.msgs = pushed]
            /\ IF IsFull(Len(pushed))
               THEN \* enqueue_enabled calls swap()
                    /\ ppc' = "swap_recv"
                    /\ ret' = IF inQuery THEN "query_swap" ELSE "idle"
                    /\ runSwaps' = runSwaps + 1
               ELSE IF inQuery
               THEN \* back in query(), which calls swap()
                    /\ ppc' = "swap_recv"
                    /\ ret' = "query_recv"
                    /\ runSwaps' = runSwaps + 1
               ELSE /\ ppc' = "idle"
                    /\ UNCHANGED <<ret, runSwaps>>
       ELSE \* query() goes on to swap(), whose assertion fails:
            \* "should never swap if not fully enabled"
            /\ ppc' = IF inQuery THEN "panic_swap" ELSE "idle"
            /\ UNCHANGED <<messages, ret, runSwaps>>

\* pub fn enqueue(&self, message)
Enqueue(message) ==
    /\ ppc = "idle"
    /\ nenq < MaxEnqueues
    /\ nenq' = nenq + 1
    /\ IF ~is_enqueue_enabled
       THEN \* "should never enqueue if not enqueue-enabled"
            /\ ppc' = "panic_enqueue"
            /\ UNCHANGED <<shadow, enqueued, messages, ret, runSwaps, runEnq>>
       ELSE /\ EnqueueBody(message, FALSE)
            /\ runEnq' = runEnq + 1
    /\ UNCHANGED <<old_messages, ch1, ch2, chq, result, sent, sentLog, nalloc,
                   nquery,
                   qprefix>>
    /\ UNCHANGED workVars
    /\ UNCHANGED modeVars

\* pub fn query(&self): up to its first channel operation
Query ==
    /\ ppc = "idle"
    /\ nquery < MaxQueries
    /\ nquery' = nquery + 1
    /\ IF ~is_fully_enabled
       THEN \* "should never query if not fully enabled"
            /\ ppc' = "panic_query"
            /\ UNCHANGED <<shadow, enqueued, messages, ret, runSwaps, qprefix>>
       ELSE /\ qprefix' = enqueued
            /\ EnqueueBody(QueryMsg, TRUE)
    /\ UNCHANGED <<old_messages, ch1, ch2, chq, result, sent, sentLog, nalloc,
                   nenq,
                   runEnq>>
    /\ UNCHANGED workVars
    /\ UNCHANGED modeVars

\* swap(): self.swap_in.recv().unwrap(), the emptiness assertion and
\* self.messages.swap(new_messages)
SwapRecv ==
    /\ ppc = "swap_recv"
    /\ ch2 # <<>> \/ WorkerGone
    /\ IF ch2 # <<>>
       THEN LET new_messages == Head(ch2) IN
            /\ ch2' = Tail(ch2)
            /\ IF new_messages.msgs # <<>>
               THEN \* assert!(new_messages.is_empty()) fails
                    /\ ppc' = "panic_nonempty"
                    /\ UNCHANGED <<messages, old_messages>>
               ELSE LET s == VecSwap(messages, new_messages) IN
                    /\ messages' = s.cell
                    /\ old_messages' = s.old
                    /\ ppc' = "swap_send"
       ELSE \* recv() on a channel whose sender is gone: unwrap panics
            /\ ppc' = "panic_recv"
            /\ UNCHANGED <<ch2, messages, old_messages>>
    /\ UNCHANGED <<shadow, ret, result, enqueued, nenq, nquery, runEnq,
                   runSwaps, qprefix, ch1, chq, sent, sentLog, nalloc>>
    /\ UNCHANGED workVars
    /\ UNCHANGED modeVars

\* swap(): self.swap_out.send(old_messages).unwrap(), then the return
SwapSend ==
    /\ ppc = "swap_send"
    /\ IF WorkerGone
       THEN \* send() on a channel whose receiver is gone: unwrap panics
            /\ ppc' = "panic_send"
            /\ UNCHANGED <<ch1, sent, sentLog, old_messages, ret, runSwaps>>
       ELSE /\ ch1' = Append(ch1, old_messages)
            /\ sent' = sent \o old_messages.msgs
            /\ sentLog' = Append(sentLog,
                                 [msgs |-> old_messages.msgs, by |-> ret])
            /\ old_messages' = NoBuf
            /\ IF ret = "query_swap"
               THEN \* the swap inside query()'s enqueue is over;
                    \* query() calls swap() itself
                    /\ ppc' = "swap_recv"
                    /\ ret' = "query_recv"
                    /\ runSwaps' = runSwaps + 1
               ELSE /\ ppc' = ret
                    /\ ret' = "idle"
                    /\ UNCHANGED runSwaps
    /\ UNCHANGED <<shadow, messages, result, enqueued, nenq, nquery, runEnq,
                   qprefix, ch2, chq, nalloc>>
    /\ UNCHANGED workVars
    /\ UNCHANGED modeVars

\* query(): self.query_in.recv().unwrap() and the return
QueryRecv ==
    /\ ppc = "query_recv"
    /\ chq # <<>> \/ WorkerGone
    /\ IF chq # <<>>
       THEN /\ result' = Head(chq)
            /\ chq' = Tail(chq)
            /\ ppc' = "idle"
            /\ runEnq' = 0
            /\ runSwaps' = 0
       ELSE /\ ppc' = "panic_recv"
            /\ UNCHANGED <<result, chq, runEnq, runSwaps>>
    /\ UNCHANGED <<shadow, messages, old_messages, ret, enqueued, nenq,
                   nquery, qprefix, ch1, ch2, sent, sentLog, nalloc>>
    /\ UNCHANGED workVars
    /\ UNCHANGED modeVars

\* the DepGraphThreadData is dropped; &self keeps it alive during a call
Drop ==
    /\ ppc = "idle"
    /\ ppc' = "dropped"
    /\ UNCHANGED <<shadow, messages, old_messages, ret, result, enqueued,
                   nenq, nquery, runEnq, runSwaps, qprefix>>
    /\ UNCHANGED <<ch1, ch2, chq, sent, sentLog, nalloc>>
    /\ UNCHANGED workVars
    /\ UNCHANGED modeVars

\* ------------------------------------------------------------------ worker
\* swap_out.send(Vec::with_capacity(INITIAL_CAPACITY)).unwrap()
MainSeed ==
    /\ wpc = "start"
    /\ IF ProducerDropped
       THEN \* the receiver is gone: send fails and unwrap panics
            /\ wpc' = "panicked"
            /\ UNCHANGED <<ch2, nalloc>>
       ELSE /\ ch2' = Append(ch2, WithCapacity(nalloc))
            /\ nalloc' = nalloc + 1
            /\ wpc' = "recv"
    /\ UNCHANGED <<wbuf, edges, applied, ch1, chq, sent, sentLog>>
    /\ UNCHANGED prodVars
    /\ UNCHANGED modeVars

\* for mut messages in swap_in: the iterator's next()
MainRecv ==
    /\ wpc = "recv"
    /\ ch1 # <<>> \/ ProducerDropped
    /\ IF ch1 # <<>>
       THEN /\ wbuf' = Head(ch1)
            /\ ch1' = Tail(ch1)
            /\ wpc' = "drain"
       ELSE \* end of stream: the loop and the thread end
            /\ wpc' = "done"
            /\ UNCHANGED <<wbuf, ch1>>
    /\ UNCHANGED <<edges, applied, ch2, chq, sent, sentLog, nalloc>>
    /\ UNCHANGED prodVars
    /\ UNCHANGED modeVars

\* for msg in messages.drain(..): one message
MainDrain ==
    /\ wpc = "drain"
    /\ ~DrainDone(wbuf.msgs)
    /\ LET msg == DrainNext(wbuf.msgs).msg IN
       IF msg.kind = "Query" /\ ProducerDropped
       THEN \* query_out.send(..).unwrap() with the receiver gone
            /\ wpc' = "panicked"
            /\ wbuf' = NoBuf
            /\ UNCHANGED <<edges, applied, chq>>
       ELSE /\ edges' = Dispatch(edges, msg)
            /\ chq' = IF msg.kind = "Query"
                      THEN Append(chq, EdgesQuery(edges)) ELSE chq
            /\ applied' = Append(applied, msg)
            /\ wbuf' = [wbuf EXCEPT !.msgs = DrainNext(@).rest]
            /\ wpc' = "drain"
    /\ UNCHANGED <<ch1, ch2, sent, sentLog, nalloc>>
    /\ UNCHANGED prodVars
    /\ UNCHANGED modeVars

\* if let Err(_) = swap_out.send(messages) { break; }
MainSend ==
    /\ wpc = "drain"
    /\ DrainDone(wbuf.msgs)
    /\ IF ProducerDropped
       THEN /\ wpc' = "done"
            /\ UNCHANGED ch2
       ELSE /\ ch2' = Append(ch2, wbuf)
            /\ wpc' = "recv"
    /\ wbuf' = NoBuf
    /\ UNCHANGED <<edges, applied, ch1, chq, sent, sentLog, nalloc>>
    /\ UNCHANGED prodVars
    /\ UNCHANGED modeVars

\* ------------------------------------------------------------ specification
Producer == SwapRecv \/ SwapSend \/ QueryRecv

Worker == MainSeed \/ MainRecv \/ MainDrain \/ MainSend

Next ==
    \/ \E message \in ClientMessages : Enqueue(message)
    \/ Query
    \/ SwapRecv
    \/ SwapSend
    \/ QueryRecv
    \/ Drop
    \/ MainSeed
    \/ MainRecv
    \/ MainDrain
    \/ MainSend

Spec == Init /\ [][Next]_vars

\* Both threads are scheduled: a call in progress and the worker's loop keep
\* running.  Whether the client makes another call is up to the client.
FairSpec == Spec /\ WF_vars(Producer) /\ WF_vars(Worker)

TypeOK ==
    /\ ppc \in {"idle", "swap_recv", "swap_send", "query_recv", "dropped"}
               \cup PanicStates
    /\ ret \in {"idle", "query_swap", "query_recv"}
    /\ wpc \in {"none", "start", "recv", "drain", "done", "panicked"}
    /\ SeqRange(enqueued) \subseteq DepMessage

\* ================================================================== claims
MaxTotal == MaxEnqueues + MaxQueries

\* the session is live: the handle has not been dropped
Live == ppc # "dropped"

Held(b) == IF b = NoBuf THEN {} ELSE {b.id}
ChanIds(ch) == {ch[i].id : i \in 1..Len(ch)}

\* buffers owned by the producer, by the worker, and in transit
ProducerOwned == Held(messages) \cup Held(old_messages)
WorkerOwned == Held(wbuf)
InTransit == ChanIds(ch1) \cup ChanIds(ch2)

\* number of places that hold a buffer
Holdings ==
    Cardinality(Held(messages)) + Cardinality(Held(old_messages))
    + Cardinality(Held(wbuf)) + Len(ch1) + Len(ch2)

\* ---- C1
\* C1: in a fully-enabled session the messages the worker has applied are at
\* every moment a prefix of the messages passed to enqueue.
C1_OrderPreservation == enabled => IsPrefix(applied, enqueued)

\* two capacity-triggered swaps were drained, with distinct neighbours
C1_Witness ==
    /\ enabled /\ nquery = 0
    /\ Len(applied) = 2 * INITIAL_CAPACITY
    /\ applied[1] # applied[2]
    /\ applied[INITIAL_CAPACITY] # applied[INITIAL_CAPACITY + 1]

C4_BufferBound ==
    enabled =>
        /\ nalloc <= 2
        /\ ProducerOwned \cup WorkerOwned \cup InTransit \subseteq 1..nalloc

\* capacity swaps, a query swap and worker drains have all happened
C4_Witness ==
    /\ enabled /\ nalloc = 2 /\ nquery >= 1 /\ ppc = "idle"
    /\ Len(applied) > 2 * INITIAL_CAPACITY

\* ---- C5
\* C5 as stated: at every step of a live session the producer owns exactly
\* one buffer, the worker at most one, and the rest is on a channel.
C5_ProducerOwnsOne ==
    (enabled /\ Live) =>
        /\ Cardinality(ProducerOwned) = 1
        /\ Cardinality(WorkerOwned) <= 1
        /\ ProducerOwned \cup WorkerOwned \cup InTransit = 1..nalloc
        /\ Holdings = nalloc

\* C5 amended: the producer owns exactly one buffer, except between the
\* receive and the send inside swap(), where it owns two (the empty one just
\* installed and the full one about to be sent); the worker owns at most
\* one; every allocated buffer is in exactly one place.
C5_Ownership ==
    (enabled /\ Live) =>
        /\ Cardinality(ProducerOwned) = (IF ppc = "swap_send" THEN 2 ELSE 1)
        /\ Cardinality(WorkerOwned) <= 1
        /\ ProducerOwned \cup WorkerOwned \cup InTransit = 1..nalloc
        /\ Holdings = nalloc

\* inside swap(), after the receive: the full buffer waits to be sent
C5_Witness ==
    /\ enabled /\ ppc = "swap_send"
    /\ Len(old_messages.msgs) = INITIAL_CAPACITY
    /\ messages.id # old_messages.id

\* ---- C6
\* C6: every buffer on its way to the producer is empty and the emptiness
\* assertion of swap() never fails.
C6_ReceivedEmpty ==
    enabled =>
        /\ \A i \in 1..Len(ch2) : ch2[i].msgs = <<>>
        /\ ppc # "panic_nonempty"

\* the producer has taken back its first buffer, drained by the worker
C6_Witness ==
    /\ enabled /\ ppc = "swap_send"
    /\ messages.id = 1 /\ messages.msgs = <<>>
    /\ Len(applied) >= INITIAL_CAPACITY

\* ---- C7
\* C7: once the handle is dropped and the worker has terminated, the worker
\* has left its loop normally and has applied every message of every buffer
\* the producer sent.
C7_GracefulShutdown ==
    (enabled /\ ~Live /\ wpc \in {"done", "panicked"})
        => (wpc = "done" /\ applied = sent)

\* ---- C8
\* C8: the worker never panics because of a disconnected channel.
C8_WorkerNeverPanics == enabled => wpc # "panicked"

\* ---- C9
\* C9: outside query(), the number of swap() calls since the buffer was last
\* empty is floor(n / C) for the n messages enqueued since, and the buffer
\* holds the remaining n mod C when the producer is idle.
C9_CapacityTrigger ==
    (enabled /\ ret = "idle" /\ ppc \in {"idle", "swap_recv", "swap_send"})
        => /\ runSwaps = runEnq \div INITIAL_CAPACITY
           /\ ppc = "idle" =>
                 Len(messages.msgs) = runEnq % INITIAL_CAPACITY
           /\ ppc # "idle" => runEnq % INITIAL_CAPACITY = 0

\* 2C messages have been enqueued without a query and the second swap is over
C9_Witness ==
    /\ enabled /\ nquery = 0 /\ ppc = "idle"
    /\ runEnq = 2 * INITIAL_CAPACITY
    /\ runSwaps = 2

\* ---- C10
\* C10: with both flags off no worker exists and enqueue leaves the buffer,
\* the channels, the graph and the validator untouched.
C10_DisabledNoEffect ==
    (~enabled /\ ~shadowActive) =>
        /\ wpc = "none"
        /\ messages = WithCapacity(0)
        /\ ch1 = <<>> /\ ch2 = <<>> /\ chq = <<>>
        /\ edges = <<>> /\ applied = <<>> /\ shadow = <<>>

\* enqueue has been called in disabled mode
C10_Witness == ~enabled /\ ~shadowActive /\ nenq > 0

\* ---- C11
\* C11: in shadow-only mode every enqueued message reaches the validator in
\* call order, the buffer and the channels stay empty, and a query call
\* stops at its assertion instead of waiting on a channel.
C11_ShadowOnly ==
    (~enabled /\ shadowActive) =>
        /\ shadow = enqueued
        /\ messages = WithCapacity(0)
        /\ old_messages = NoBuf
        /\ ch1 = <<>> /\ ch2 = <<>> /\ chq = <<>>
        /\ ppc \in {"idle", "dropped", "panic_query"}
        /\ nquery > 0 => ppc = "panic_query"

\* two messages were validated, then query was called
C11_Witness ==
    /\ ~enabled /\ shadowActive
    /\ Len(shadow) >= 2 /\ shadow[1] # shadow[2]
    /\ ppc = "panic_query"

\* ---- C12
\* C12: enqueue without enqueue-enabled and query without fully-enabled end
\* in a panic at once, and the panicking step leaves the validator, the
\* buffer and the three channels as they were.
C12_AbortBeforeEffect ==
    /\ [][(ppc = "idle" /\ ppc' \in PanicStates)
            => (/\ ppc' \in {"panic_enqueue", "panic_query"}
                /\ UNCHANGED <<shadow, messages, old_messages, ch1, ch2, chq,
                               enqueued>>)]_vars
    /\ []((~enabled /\ ~shadowActive /\ nenq > 0) => ppc = "panic_enqueue")
    /\ []((~enabled /\ nquery > 0) => ppc = "panic_query")

\* a query was rejected after the validator had seen a message
C12_Witness ==
    /\ ~enabled /\ shadowActive /\ ppc = "panic_query"
    /\ shadow # <<>> /\ QueryMsg \notin SeqRange(shadow)

\* ---- C13
\* C13 as stated: every buffer the producer sends holds at least one message,
\* and the buffer sent by query()'s own swap ends with that call's Query.
C13_SentNonEmpty ==
    enabled =>
        \A i \in 1..Len(sentLog) :
            /\ sentLog[i].msgs # <<>>
            /\ sentLog[i].by = "query_recv"
                  => sentLog[i].msgs[Len(sentLog[i].msgs)] = QueryMsg

\* C13 amended: every swap sends the whole buffer that was current before it
\* (the messages enqueued are those sent, then those held for sending, then
\* those in the current buffer).  A capacity swap sends C messages; query()'s
\* own swap sends a shorter buffer ending with the Query, unless the Query
\* push filled the buffer: then the capacity swap sends the Query and
\* query()'s own swap sends an empty buffer.
C13_SentJustFilled ==
    enabled =>
        /\ enqueued = sent \o old_messages.msgs \o messages.msgs
        /\ \A i \in 1..Len(sentLog) :
              LET e == sentLog[i] IN
              IF e.msgs = <<>>
              THEN /\ e.by = "query_recv"
                   /\ i > 1
                   /\ sentLog[i - 1].by = "query_swap"
              ELSE /\ e.by \in {"idle", "query_swap"}
                         <=> Len(e.msgs) = INITIAL_CAPACITY
                   /\ e.by = "idle" => QueryMsg \notin SeqRange(e.msgs)
                   /\ e.by # "idle" => e.msgs[Len(e.msgs)] = QueryMsg

\* query() was called with C-1 messages buffered: its own swap has sent an
\* empty buffer
C13_Witness ==
    /\ enabled
    /\ \E i \in 1..Len(sentLog) : sentLog[i].msgs = <<>>

\* ---- C14
\* query() has returned and nothing was enqueued since
JustReturned == enabled /\ ppc = "idle" /\ nquery > 0 /\ runEnq = 0

C15_NoDeadlock ==
    (enabled /\ ppc \in {"swap_recv", "swap_send", "query_recv"})
        ~> (ppc = "idle")

\* a query whose Query push triggered a swap of its own has returned
C15_Witness ==
    /\ enabled /\ ppc = "idle" /\ nquery = 2
    /\ \E i \in 1..Len(sentLog) :
          sentLog[i].by = "query_swap"

\* ---- C16
\* C16: with both flags set the validator has seen exactly the messages
\* enqueued so far, Query messages included, and the worker has applied a
\* prefix of them.
C16_RealTimeValidation ==
    (enabled /\ shadowActive) =>
        /\ shadow = enqueued
        /\ IsPrefix(applied, shadow)

\* the validator is ahead of the worker, which has applied a Query
C16_Witness ==
    /\ enabled /\ shadowActive
    /\ QueryMsg \in SeqRange(applied)
    /\ Len(shadow) > Len(applied) + 1

\* ---- C17
\* C17: an enqueue call that leaves fewer than C messages in the buffer
\* returns at once; it appends its message to the current buffer and leaves
\* the channels and the worker as they were.
C17_EnqueueNoChannel ==
    [][(enabled /\ nenq' = nenq + 1
          /\ Len(messages'.msgs) < INITIAL_CAPACITY)
        => (/\ ppc' = "idle"
            /\ messages'.id = messages.id
            /\ \E m \in ClientMessages :
                  messages'.msgs = Append(messages.msgs, m)
            /\ UNCHANGED <<old_messages, ch1, ch2, chq, wpc, wbuf, edges,
                           applied, result>>)]_vars

\* a message was buffered while the worker was in the middle of a drain
C17_Witness ==
    /\ enabled /\ ppc = "idle" /\ nquery = 0
    /\ Len(messages.msgs) = INITIAL_CAPACITY - 1
    /\ wpc = "drain" /\ wbuf.msgs # <<>> /\ applied # <<>>

\* ---- C18
\* C18: at most one buffer is queued for the worker or being drained by it,
\* and at most 2C enqueued messages are not yet applied.
C18_BoundedDepth ==
    enabled =>
        /\ Len(ch1) + Cardinality(WorkerOwned) <= 1
        /\ Len(enqueued) - Len(applied) <= 2 * INITIAL_CAPACITY

\* a full buffer waits for the worker while the producer has filled the next
C18_Witness ==
    /\ enabled /\ Len(ch1) = 1
    /\ Len(enqueued) - Len(applied) = 2 * INITIAL_CAPACITY

\* ---- C19
\* C19: the current buffer never holds more than C messages, and fewer than
\* C whenever the producer is not inside a call.
C19_WithinCapacity ==
    enabled =>
        /\ Len(messages.msgs) <= INITIAL_CAPACITY
        /\ Len(old_messages.msgs) <= INITIAL_CAPACITY
        /\ \A i \in 1..Len(ch1) : Len(ch1[i].msgs) <= INITIAL_CAPACITY
        /\ Len(wbuf.msgs) <= INITIAL_CAPACITY
        /\ ppc \in {"idle", "dropped"}
              => Len(messages.msgs) < INITIAL_CAPACITY

\* the Query pushed by query() has filled the buffer
C19_Witness ==
    /\ enabled /\ ppc = "swap_recv" /\ ret = "query_swap"
    /\ Len(messages.msgs) = INITIAL_CAPACITY

\* ---- C20
\* the producer is inside query()
InQuery ==
    \/ ppc = "query_recv"
    \/ ppc \in {"swap_recv", "swap_send"} /\ ret # "idle"

QueryPositions(s) == {i \in 1..Len(s) : s[i].kind = "Query"}

\* the graph as it is when the k-th Query of s is dispatched
SnapshotAt(s, k) ==
    LET pos == CHOOSE i \in QueryPositions(s) :
                   Cardinality({j \in QueryPositions(s) : j <= i}) = k
    IN Mutations(SubSeq(s, 1, pos))

====
